---- MODULE Spec2Model ----
(***************************************************************************)
(* Model of plant_seed.py ("sync"): load a seed manifest, plan every       *)
(* entry against the directory tree, show the plan, ask once for           *)
(* confirmation, then apply the git primitives entry by entry and remove   *)
(* the repositories that the seed does not list.                           *)
(*                                                                         *)
(* Paths are sequences of components counted from the filesystem root.     *)
(* A git repository is abstracted to what the program reads and writes:    *)
(* the checked-out branch, the HEAD commit, the URL of origin, whether the *)
(* work tree has local modifications and whether the submodules are        *)
(* initialised at HEAD.                                                    *)
(***************************************************************************)
EXTENDS Integers, Sequences, FiniteSets, TLC

(* ------------------------------------------------------------------ *)
(* Bounds                                                             *)
(* ------------------------------------------------------------------ *)

\* Largest number of entries of a seed manifest.
MaxSpecs == 2

(* ------------------------------------------------------------------ *)
(* The directory tree                                                 *)
(* ------------------------------------------------------------------ *)

\* plant_seed.py:15-16.  The script lives in SRC_ROOT/_raisin_seed.
SRC_ROOT == <<"ws", "src">>
WORKSPACE_ROOT == SubSeq(SRC_ROOT, 1, Len(SRC_ROOT) - 1)

\* plant_seed.py:255
IGNORED_ORPHANS == {"_raisin_seed"}

\* Locations of the tree whose content varies.
A    == SRC_ROOT \o <<"a">>
B    == SRC_ROOT \o <<"b">>
AN   == A \o <<"n">>
X    == WORKSPACE_ROOT \o <<"x">>
SEED == SRC_ROOT \o <<"_raisin_seed">>
DOT  == SRC_ROOT \o <<".h">>
Nodes == {A, B, AN, X, SEED, DOT}

\* SRC_ROOT/l is a symbolic link to SRC_ROOT/a (it may dangle).
LINK == SRC_ROOT \o <<"l">>
LINK_TARGET == A

\* Directories that exist in every run and are not inside any work tree.
FixedDirs == {WORKSPACE_ROOT, SRC_ROOT}

Branches == {"main", "HEAD"}
Commits  == {"c1", "c2"}
Remotes  == {"r1", "r2"}
NoOrigin == "none"

Absent == [kind |-> "absent", branch |-> "", commit |-> "", origin |-> NoOrigin,
           dirty |-> FALSE, subs |-> FALSE]
PlainDir == [Absent EXCEPT !.kind = "dir"]
Repo(branch, commit, origin, dirty, subs) ==
    [kind |-> "repo", branch |-> branch, commit |-> commit, origin |-> origin,
     dirty |-> dirty, subs |-> subs]

IsPrefix(p, q) == Len(p) <= Len(q) /\ SubSeq(q, 1, Len(p)) = p
Parent(p) == SubSeq(p, 1, Len(p) - 1)

\* Path.resolve() of SRC_ROOT / raw: components are applied left to right,
\* ".." drops the last component, a symbolic link is replaced by its target.
RECURSIVE ResolveFrom(_, _)
ResolveFrom(base, raw) ==
    IF raw = <<>> THEN base
    ELSE LET c == Head(raw)
             stepped == IF c = ".."
                        THEN (IF base = <<>> THEN base ELSE Parent(base))
                        ELSE base \o <<c>>
             followed == IF stepped = LINK THEN LINK_TARGET ELSE stepped
         IN ResolveFrom(followed, Tail(raw))

Resolve(p) == ResolveFrom(<<>>, p)

\* Path.exists(): follows symbolic links.
Exists(f, p) ==
    LET q == Resolve(p)
    IN q \in FixedDirs \/ (q \in Nodes /\ f[q].kind # "absent")

IsDir(f, p) == Exists(f, p)

\* (path / ".git").exists()
HasGitDir(f, p) ==
    LET q == Resolve(p)
    IN q \in Nodes /\ f[q].kind = "repo"

\* The work tree that `git -C p` operates on: the nearest directory at or
\* above p that holds a .git; <<>> when there is none.
RECURSIVE WorkTreeOf(_, _)
WorkTreeOf(f, p) ==
    IF p = <<>> THEN <<>>
    ELSE IF p \in Nodes /\ f[p].kind = "repo" THEN p
    ELSE WorkTreeOf(f, Parent(p))

(* ------------------------------------------------------------------ *)
(* Seed manifest                                                      *)
(* ------------------------------------------------------------------ *)

\* The "path" fields a seed entry may carry, relative to SRC_ROOT.
RawPaths == { <<"a">>, <<"b">>, <<"l">>, <<"a", "n">>, <<"..", "x">>,
              <<"..", "..", "x">> }

\* The pinned states a seed entry may ask for.
Targets == { [remote |-> "r1", branch |-> "main", commit |-> "c1"],
             [remote |-> "r2", branch |-> "HEAD", commit |-> "c2"] }

SeedEntries ==
    { [name |-> p[Len(p)], path |-> p, remote |-> t.remote, branch |-> t.branch,
       commit |-> t.commit] : p \in RawPaths, t \in Targets }

Seeds == UNION { [1..n -> SeedEntries] : n \in 0..MaxSpecs }

NoError == [kind |-> "none", cause |-> "none"]

\* Variant: the path is compared with the filesystem root.
ensure_within_filesystem(path) == IsPrefix(<<>>, path)

\* plant_seed.py:66-70.  TRUE when the check passes, FALSE when it raises.
ensure_within_workspace(path) == IsPrefix(WORKSPACE_ROOT, path)

\* plant_seed.py:160-173: one entry of the seed becomes a RepoSpec.
RepoSpec(entry) ==
    [name |-> entry.name, path |-> Resolve(SRC_ROOT \o entry.path),
     remote |-> entry.remote, branch |-> entry.branch, commit |-> entry.commit]

\* plant_seed.py:152-178.  The SeedError raised by ensure_within_workspace is
\* caught by `except Exception` and raised again as "Invalid entry".
load_seed(repositories) ==
    LET bad == { i \in 1..Len(repositories) :
                    ~ensure_within_workspace(RepoSpec(repositories[i]).path) }
    IN IF bad # {}
       THEN [ok |-> FALSE, specs |-> <<>>,
             error |-> [kind |-> "Invalid entry in seed file",
                        cause |-> "Path escapes workspace root"]]
       ELSE [ok |-> TRUE,
             specs |-> [i \in 1..Len(repositories) |-> RepoSpec(repositories[i])],
             error |-> NoError]

(* ------------------------------------------------------------------ *)
(* Probing                                                            *)
(* ------------------------------------------------------------------ *)

\* plant_seed.py:83-95: git -C path rev-parse --is-inside-work-tree
is_git_repository(f, path) == Exists(f, path) /\ WorkTreeOf(f, path) # <<>>

\* plant_seed.py:146-149
get_repo_state(f, path) ==
    LET t == WorkTreeOf(f, path) IN <<f[t].branch, f[t].commit>>

Step(verb, arg) == [verb |-> verb, arg |-> arg]

\* Variant: only a differing URL is reported, a missing origin is not.
describe_remote_action_set_only(f, path, remote_url) ==
    LET t == WorkTreeOf(f, path)
    IN IF f[t].origin # NoOrigin /\ f[t].origin # remote_url
       THEN <<Step("set origin URL", <<remote_url>>)>>
       ELSE <<>>

\* plant_seed.py:135-143.  <<>> stands for None.
describe_remote_action(f, path, remote_url) ==
    LET t == WorkTreeOf(f, path)
    IN IF f[t].origin = NoOrigin THEN <<Step("add origin", <<remote_url>>)>>
       ELSE IF f[t].origin # remote_url THEN <<Step("set origin URL", <<remote_url>>)>>
       ELSE <<>>

(* ------------------------------------------------------------------ *)
(* Planning                                                           *)
(* ------------------------------------------------------------------ *)

\* plant_seed.py:185-187: plan_repo raises "Path exists but is not a git repo".
plan_raises(spec, f) == Exists(f, spec.path) /\ ~is_git_repository(f, spec.path)

\* plant_seed.py:207-211
checkout_desc(spec) ==
    IF spec.branch # "" /\ spec.branch # "HEAD"
    THEN Step("checkout branch", <<spec.branch, spec.commit>>)
    ELSE Step("checkout detached HEAD", <<spec.commit>>)

\* Variant: a repository counts as up to date as soon as its commit matches.
plan_repo_commit_only(spec, f) ==
    LET tail == <<checkout_desc(spec), Step("reset --hard", <<spec.commit>>),
                  Step("update submodules", <<>>)>>
    IN IF Exists(f, spec.path)
       THEN LET st == get_repo_state(f, spec.path)
            IN IF st[2] = spec.commit
               THEN [spec |-> spec, status |-> "up-to-date",
                     steps |-> <<Step("already on", <<st[1], st[2]>>)>>,
                     needs_action |-> FALSE]
               ELSE [spec |-> spec, status |-> "update existing repo",
                     steps |-> describe_remote_action(f, spec.path, spec.remote)
                               \o <<Step("fetch --all --tags --prune", <<>>)>> \o tail,
                     needs_action |-> TRUE]
       ELSE [spec |-> spec, status |-> "clone new repo",
             steps |-> <<Step("clone from", <<spec.remote>>)>> \o tail,
             needs_action |-> TRUE]

\* Variant: the description of an up-to-date repository is left out.
plan_repo_no_description(spec, f) ==
    LET tail == <<checkout_desc(spec), Step("reset --hard", <<spec.commit>>),
                  Step("update submodules", <<>>)>>
    IN IF Exists(f, spec.path)
       THEN LET st == get_repo_state(f, spec.path)
            IN IF st[1] = spec.branch /\ st[2] = spec.commit
               THEN [spec |-> spec, status |-> "up-to-date",
                     steps |-> <<>>,
                     needs_action |-> FALSE]
               ELSE [spec |-> spec, status |-> "update existing repo",
                     steps |-> describe_remote_action(f, spec.path, spec.remote)
                               \o <<Step("fetch --all --tags --prune", <<>>)>> \o tail,
                     needs_action |-> TRUE]
       ELSE [spec |-> spec, status |-> "clone new repo",
             steps |-> <<Step("clone from", <<spec.remote>>)>> \o tail,
             needs_action |-> TRUE]

\* plant_seed.py:181-215, for a spec on which plan_repo does not raise.
plan_repo(spec, f) ==
    LET tail == <<checkout_desc(spec), Step("reset --hard", <<spec.commit>>),
                  Step("update submodules", <<>>)>>
    IN IF Exists(f, spec.path)
       THEN LET st == get_repo_state(f, spec.path)
            IN IF st[1] = spec.branch /\ st[2] = spec.commit
               THEN [spec |-> spec, status |-> "up-to-date",
                     steps |-> <<Step("already on", <<st[1], st[2]>>)>>,
                     needs_action |-> FALSE]
               ELSE [spec |-> spec, status |-> "update existing repo",
                     steps |-> describe_remote_action(f, spec.path, spec.remote)
                               \o <<Step("fetch --all --tags --prune", <<>>)>> \o tail,
                     needs_action |-> TRUE]
       ELSE [spec |-> spec, status |-> "clone new repo",
             steps |-> <<Step("clone from", <<spec.remote>>)>> \o tail,
             needs_action |-> TRUE]

\* plant_seed.py:228-233
Whitespace == {" ", "\t"}
RECURSIVE LStrip(_)
LStrip(s) == IF s # <<>> /\ Head(s) \in Whitespace THEN LStrip(Tail(s)) ELSE s
RECURSIVE RStrip(_)
RStrip(s) ==
    IF s # <<>> /\ s[Len(s)] \in Whitespace THEN RStrip(SubSeq(s, 1, Len(s) - 1)) ELSE s
Strip(s) == RStrip(LStrip(s))
LowerChar(c) ==
    CASE c = "Y" -> "y" [] c = "E" -> "e" [] c = "S" -> "s" [] c = "N" -> "n"
      [] c = "O" -> "o" [] OTHER -> c
Lower(s) == [i \in 1..Len(s) |-> LowerChar(s[i])]

\* End of input on the terminal.
EOF == <<"^D">>

\* What the operator may have typed at the prompt.
Responses == { <<"y">>, <<" ", "Y", "E", "S", " ">>, <<"n">>, <<>>, <<"y", "e">>, EOF }

\* Variant: an empty line counts as yes.
confirm_execution_default_yes(response) ==
    IF response = EOF THEN FALSE
    ELSE Lower(Strip(response)) \in { <<>>, <<"y">>, <<"y", "e", "s">> }

confirm_execution(response) ==
    IF response = EOF THEN FALSE
    ELSE Lower(Strip(response)) \in { <<"y">>, <<"y", "e", "s">> }

(* ------------------------------------------------------------------ *)
(* Orphans                                                            *)
(* ------------------------------------------------------------------ *)

\* Names that SRC_ROOT.iterdir() can yield, in the order sorted() gives them.
RootNames == <<".h", "_raisin_seed", "a", "b", "l">>

\* Variant: the entry is compared with the tracked paths without resolving it.
is_orphan_unresolved(specs, f, name) ==
    LET entry == SRC_ROOT \o <<name>>
        tracked == { Resolve(specs[i].path) : i \in 1..Len(specs) }
    IN /\ (entry = LINK \/ Exists(f, entry))
       /\ IsDir(f, entry)
       /\ name \notin IGNORED_ORPHANS
       /\ HasGitDir(f, entry)
       /\ entry \notin tracked

\* plant_seed.py:261-269: is this entry of SRC_ROOT an orphan?
is_orphan(specs, f, name) ==
    LET entry == SRC_ROOT \o <<name>>
        tracked == { Resolve(specs[i].path) : i \in 1..Len(specs) }
    IN /\ (entry = LINK \/ Exists(f, entry))
       /\ IsDir(f, entry)
       /\ name \notin IGNORED_ORPHANS
       /\ HasGitDir(f, entry)
       /\ Resolve(entry) \notin tracked

\* plant_seed.py:258-270
find_orphan_repos(specs, f) ==
    LET IsOrphanName(name) == is_orphan(specs, f, name)
        names == SelectSeq(RootNames, IsOrphanName)
    IN [i \in 1..Len(names) |-> SRC_ROOT \o <<names[i]>>]

(* ------------------------------------------------------------------ *)
(* Git primitives and filesystem mutations                            *)
(* ------------------------------------------------------------------ *)

\* The default branch of every remote; its tip is whatever the remote holds
\* when the clone is made.
DefaultBranch == "main"

\* plant_seed.py:247: target.parent.mkdir(parents=True, exist_ok=True)
mkdir_parents(f, target) ==
    [q \in Nodes |->
        IF q # target /\ IsPrefix(q, target) /\ f[q].kind = "absent" THEN PlainDir
        ELSE f[q]]

\* plant_seed.py:131-132: git clone remote destination, the remote's default
\* branch being at commit tip.  Submodules are not initialised by a clone.
clone_repo(f, remote, destination, tip) ==
    [f EXCEPT ![destination] = Repo(DefaultBranch, tip, remote, FALSE, FALSE)]

\* plant_seed.py:98-106
ensure_remote_origin(f, path, remote_url) ==
    LET t == WorkTreeOf(f, path) IN [f EXCEPT ![t].origin = remote_url]

\* plant_seed.py:113-117: checkout -B branch commit, or checkout --detach commit.
\* Local modifications are carried over; submodules are left as they were.
git_checkout(f, path, branch, commit) ==
    LET t == WorkTreeOf(f, path)
        b == IF branch # "" /\ branch # "HEAD" THEN branch ELSE "HEAD"
    IN [f EXCEPT ![t].branch = b, ![t].commit = commit,
                 ![t].subs = (f[t].subs /\ f[t].commit = commit)]

\* plant_seed.py:120-121
git_reset_hard(f, path, commit) ==
    LET t == WorkTreeOf(f, path)
    IN [f EXCEPT ![t].commit = commit, ![t].dirty = FALSE,
                 ![t].subs = (f[t].subs /\ f[t].commit = commit)]

\* plant_seed.py:124-128
git_update_submodules(f, path) ==
    LET t == WorkTreeOf(f, path) IN [f EXCEPT ![t].subs = TRUE]

\* plant_seed.py:287: shutil.rmtree(path)
rmtree(f, path) ==
    [q \in Nodes |-> IF IsPrefix(Resolve(path), q) THEN Absent ELSE f[q]]

(* ------------------------------------------------------------------ *)
(* State                                                              *)
(* ------------------------------------------------------------------ *)

VARIABLES
    seed,       \* the "repositories" list of the seed file
    fs,         \* the directory tree: Nodes -> node state
    fs0,        \* the directory tree when the run started
    pc,         \* where main() stands
    specs,      \* result of load_seed
    plans,      \* result of the planning pass
    orphans,    \* result of find_orphan_repos
    stdin,      \* the line waiting on the terminal, once the prompt is shown
    confirmed,  \* result of confirm_execution
    idx,        \* position of the apply loop in plans
    oidx,       \* position of the removal loop in orphans
    exitCode,   \* -1 while running, then the value main() returns
    error,      \* the SeedError reported, if any
    probed,     \* indexes of the specs probed by the planning pass
    log,        \* the mutating calls made so far, in order
    tool,       \* the tools started so far, in order
    repos,      \* result of discover_repositories
    changes     \* result of summarize_seed_changes

vars == <<seed, fs, fs0, pc, specs, plans, orphans, stdin, confirmed, idx, oidx,
          exitCode, error, probed, log, tool, repos, changes>>

\* One entry of the log: the call, the spec of the apply loop it was made for,
\* whether the path existed when it was made and whether it succeeded.
Call(op, path, arg, ok) ==
    [op |-> op, path |-> path, arg |-> arg, spec |-> idx,
     existed |-> Exists(fs, path), ok |-> ok]

\* States a top-level directory a may be found in.
InitRepos ==
    { Repo("main", c, o, FALSE, TRUE) : c \in Commits, o \in {NoOrigin, "r1"} }

\* The tree with the given content at a, b, a/n and .h; the script's own
\* directory is a repository and ../x does not exist.
Tree(a, b, an, dot) ==
    [n \in Nodes |->
        CASE n = A -> a
          [] n = B -> b
          [] n = AN -> an
          [] n = DOT -> dot
          [] n = SEED -> Repo("main", "c1", "r1", FALSE, TRUE)
          [] OTHER -> Absent]

InitTrees ==
    { Tree(a, b, an, Absent) :
        a \in {Absent, PlainDir} \cup InitRepos,
        b \in {Absent, Repo("main", "c1", "r1", FALSE, TRUE)},
        an \in {Absent, PlainDir, Repo("main", "c1", "r1", FALSE, TRUE)} }
    \ { Tree(Absent, b, an, Absent) :
        b \in {Absent, Repo("main", "c1", "r1", FALSE, TRUE)},
        an \in {PlainDir, Repo("main", "c1", "r1", FALSE, TRUE)} }

Init ==
    /\ seed \in Seeds
    /\ fs \in InitTrees
    /\ fs0 = fs
    /\ pc = "start"
    /\ specs = <<>>
    /\ plans = <<>>
    /\ orphans = <<>>
    /\ stdin = EOF
    /\ confirmed = FALSE
    /\ idx = 0
    /\ oidx = 0
    /\ exitCode = -1
    /\ error = NoError
    /\ probed = {}
    /\ log = <<>>
    /\ tool = <<"sync">>
    /\ repos = <<>>
    /\ changes = <<>>

\* main() returns 1 from its `except SeedError`.
Raise(kind) ==
    /\ pc' = "failed"
    /\ exitCode' = 1
    /\ error' = [kind |-> kind, cause |-> "none"]

(* ------------------------------------------------------------------ *)
(* main(): loading, planning, confirmation                            *)
(* ------------------------------------------------------------------ *)

\* plant_seed.py:296-299
LoadSeed ==
    /\ pc = "start"
    /\ LET res == load_seed(seed)
       IN IF ~res.ok
          THEN /\ pc' = "failed"
               /\ exitCode' = 1
               /\ error' = res.error
               /\ specs' = specs
          ELSE IF res.specs = <<>>
          THEN /\ pc' = "done"
               /\ exitCode' = 0
               /\ UNCHANGED <<error, specs>>
          ELSE /\ pc' = "loaded"
               /\ specs' = res.specs
               /\ UNCHANGED <<exitCode, error>>
    /\ UNCHANGED <<tool, repos, changes, seed, fs, fs0, plans, orphans, stdin, confirmed, idx, oidx, probed, log>>

\* Variant: an entry on which plan_repo raises is left out of the plans.
PlanAll_skipping ==
    /\ pc = "loaded"
    /\ LET planned == SelectSeq(specs, LAMBDA sp : ~plan_raises(sp, fs))
       IN plans' = [i \in 1..Len(planned) |-> plan_repo(planned[i], fs)]
    /\ pc' = "planned"
    /\ probed' = 1..Len(specs)
    /\ UNCHANGED <<exitCode, error>>
    /\ UNCHANGED <<tool, repos, changes, seed, fs, fs0, specs, orphans, stdin, confirmed, idx, oidx, log>>

\* plant_seed.py:300: plans = [plan_repo(spec) for spec in specs]
PlanAll ==
    /\ pc = "loaded"
    /\ LET raising == { i \in 1..Len(specs) : plan_raises(specs[i], fs) }
       IN IF raising # {}
          THEN LET first == CHOOSE i \in raising : \A j \in raising : i <= j
               IN /\ Raise("Path exists but is not a git repo")
                  /\ probed' = 1..first
                  /\ plans' = plans
          ELSE /\ pc' = "planned"
               /\ plans' = [i \in 1..Len(specs) |-> plan_repo(specs[i], fs)]
               /\ probed' = 1..Len(specs)
               /\ UNCHANGED <<exitCode, error>>
    /\ UNCHANGED <<tool, repos, changes, seed, fs, fs0, specs, orphans, stdin, confirmed, idx, oidx, log>>

NeedsAction(ps) == \E i \in 1..Len(ps) : ps[i].needs_action

\* plant_seed.py:301-307: the orphans are found, plan and orphans are shown,
\* and main() returns when there is nothing to do.  Otherwise the prompt is
\* shown and the operator types a line (or closes the input).
ShowPlan ==
    /\ pc = "planned"
    /\ orphans' = find_orphan_repos(specs, fs)
    /\ IF \E i \in 1..Len(orphans') : ~ensure_within_workspace(orphans'[i])
       THEN /\ Raise("Path escapes workspace root")
            /\ stdin' = stdin
       ELSE IF ~NeedsAction(plans) /\ orphans' = <<>>
       THEN /\ pc' = "done"
            /\ exitCode' = 0
            /\ UNCHANGED <<error, stdin>>
       ELSE /\ pc' = "confirm"
            /\ stdin' \in Responses
            /\ UNCHANGED <<exitCode, error>>
    /\ UNCHANGED <<tool, repos, changes, seed, fs, fs0, specs, plans, confirmed, idx, oidx, probed, log>>

\* plant_seed.py:308-310
Confirm ==
    /\ pc = "confirm"
    /\ confirmed' = confirm_execution(stdin)
    /\ stdin' = EOF
    /\ IF confirmed'
       THEN /\ pc' = "apply"
            /\ idx' = 1
            /\ oidx' = 1
            /\ exitCode' = exitCode
       ELSE /\ pc' = "aborted"
            /\ exitCode' = 0
            /\ UNCHANGED <<idx, oidx>>
    /\ UNCHANGED <<tool, repos, changes, seed, fs, fs0, specs, plans, orphans, error, probed, log>>

(* ------------------------------------------------------------------ *)
(* main(): the apply loop (ensure_repo) and the removal loop          *)
(* ------------------------------------------------------------------ *)

InLoop == pc = "apply" /\ idx <= Len(plans)
Target == plans[idx].spec.path
Cur    == plans[idx].spec

frame == <<tool, repos, changes, seed, fs0, specs, plans, orphans, stdin, confirmed, probed>>

\* Variant: the failure is recorded and the loop goes on with the next spec.
GitFails_continues(op) ==
    /\ pc' = "apply"
    /\ idx' = idx + 1
    /\ log' = Append(log, Call(op, plans[idx].spec.path, <<>>, FALSE))
    /\ UNCHANGED <<fs, oidx, exitCode, error>>

\* run() raises SeedError when the command returns non-zero (plant_seed.py:73-80).
GitFails(op) ==
    /\ pc' = "failed"
    /\ exitCode' = 1
    /\ error' = [kind |-> "Command failed", cause |-> op]
    /\ log' = Append(log, Call(op, plans[idx].spec.path, <<>>, FALSE))
    /\ UNCHANGED <<fs, idx, oidx>>

\* plant_seed.py:313-315
SkipPlan ==
    /\ InLoop
    /\ ~plans[idx].needs_action
    /\ idx' = idx + 1
    /\ UNCHANGED <<frame, fs, pc, oidx, exitCode, error, log>>

\* Variant: ensure_repo follows the status of the plan instead of looking at
\* the target again.
EnsureRepo_from_plan ==
    /\ pc = "apply" /\ idx <= Len(plans)
    /\ plans[idx].needs_action
    /\ pc' = IF plans[idx].status = "clone new repo" THEN "mkdir" ELSE "remote"
    /\ UNCHANGED <<idx, exitCode, error>>
    /\ UNCHANGED <<tool, repos, changes, seed, fs0, specs, plans, orphans, stdin, confirmed, probed, fs, oidx, log>>

\* Variant: ensure_repo is called for every plan, needs_action or not.
EnsureRepo_every_plan ==
    /\ pc = "apply" /\ idx <= Len(plans)
    /\ IF Exists(fs, plans[idx].spec.path)
       THEN IF ~is_git_repository(fs, plans[idx].spec.path)
            THEN Raise("Path exists but is not a git repo") /\ idx' = idx
            ELSE IF get_repo_state(fs, plans[idx].spec.path)
                      = <<plans[idx].spec.branch, plans[idx].spec.commit>>
            THEN idx' = idx + 1 /\ UNCHANGED <<pc, exitCode, error>>
            ELSE pc' = "remote" /\ UNCHANGED <<idx, exitCode, error>>
       ELSE pc' = "mkdir" /\ UNCHANGED <<idx, exitCode, error>>
    /\ UNCHANGED <<tool, repos, changes, seed, fs0, specs, plans, orphans, stdin, confirmed, probed, fs, oidx, log>>

\* plant_seed.py:316-317, 237-243: ensure_repo looks at the target again.
EnsureRepo ==
    /\ InLoop
    /\ plans[idx].needs_action
    /\ IF Exists(fs, Target)
       THEN IF ~is_git_repository(fs, Target)
            THEN Raise("Path exists but is not a git repo") /\ idx' = idx
            ELSE IF get_repo_state(fs, Target) = <<Cur.branch, Cur.commit>>
            THEN idx' = idx + 1 /\ UNCHANGED <<pc, exitCode, error>>
            ELSE pc' = "remote" /\ UNCHANGED <<idx, exitCode, error>>
       ELSE pc' = "mkdir" /\ UNCHANGED <<idx, exitCode, error>>
    /\ UNCHANGED <<frame, fs, oidx, log>>

\* plant_seed.py:244
EnsureRemoteOrigin ==
    /\ pc = "remote"
    /\ \E ok \in BOOLEAN :
        IF ok
        THEN /\ fs' = ensure_remote_origin(fs, Target, Cur.remote)
             /\ log' = IF fs' = fs THEN log
                       ELSE Append(log, Call("remote", Target, <<Cur.remote>>, TRUE))
             /\ pc' = "fetch"
             /\ UNCHANGED <<idx, oidx, exitCode, error>>
        ELSE GitFails("remote")
    /\ UNCHANGED frame

\* plant_seed.py:245
GitFetch ==
    /\ pc = "fetch"
    /\ \E ok \in BOOLEAN :
        IF ok
        THEN /\ log' = Append(log, Call("fetch", Target, <<>>, TRUE))
             /\ pc' = "checkout"
             /\ UNCHANGED <<fs, idx, oidx, exitCode, error>>
        ELSE GitFails("fetch")
    /\ UNCHANGED frame

\* plant_seed.py:247
MkdirParents ==
    /\ pc = "mkdir"
    /\ fs' = mkdir_parents(fs, Target)
    /\ log' = Append(log, Call("mkdir", Parent(Target), <<>>, TRUE))
    /\ pc' = "clone"
    /\ UNCHANGED <<frame, idx, oidx, exitCode, error>>

\* plant_seed.py:248
CloneRepo ==
    /\ pc = "clone"
    /\ \E ok \in BOOLEAN, tip \in Commits :
        IF ok
        THEN /\ fs' = clone_repo(fs, Cur.remote, Target, tip)
             /\ log' = Append(log, Call("clone", Target, <<Cur.remote>>, TRUE))
             /\ pc' = "checkout"
             /\ UNCHANGED <<idx, oidx, exitCode, error>>
        ELSE GitFails("clone")
    /\ UNCHANGED frame

\* plant_seed.py:249
GitCheckout ==
    /\ pc = "checkout"
    /\ \E ok \in BOOLEAN :
        IF ok
        THEN /\ fs' = git_checkout(fs, Target, Cur.branch, Cur.commit)
             /\ log' = Append(log, Call(checkout_desc(Cur).verb, Target, <<Cur.commit>>, TRUE))
             /\ pc' = "reset"
             /\ UNCHANGED <<idx, oidx, exitCode, error>>
        ELSE GitFails(checkout_desc(Cur).verb)
    /\ UNCHANGED frame

\* plant_seed.py:250
GitResetHard ==
    /\ pc = "reset"
    /\ \E ok \in BOOLEAN :
        IF ok
        THEN /\ fs' = git_reset_hard(fs, Target, Cur.commit)
             /\ log' = Append(log, Call("reset --hard", Target, <<Cur.commit>>, TRUE))
             /\ pc' = "submodules"
             /\ UNCHANGED <<idx, oidx, exitCode, error>>
        ELSE GitFails("reset --hard")
    /\ UNCHANGED frame

\* plant_seed.py:251-252, 318-319
GitUpdateSubmodules ==
    /\ pc = "submodules"
    /\ \E ok \in BOOLEAN :
        IF ok
        THEN /\ fs' = git_update_submodules(fs, Target)
             /\ log' = Append(log, Call("update submodules", Target, <<>>, TRUE))
             /\ pc' = "apply"
             /\ idx' = idx + 1
             /\ UNCHANGED <<oidx, exitCode, error>>
        ELSE GitFails("update submodules")
    /\ UNCHANGED frame

\* Variant: the tree is removed without the containment check.
delete_repo_unchecked(f, l, path) ==
    IF ~Exists(f, path) THEN [fs |-> f, log |-> l, raised |-> "none"]
    ELSE [fs |-> rmtree(f, path),
          log |-> Append(l, Call("rmtree", path, <<>>, TRUE)),
          raised |-> "none"]

\* plant_seed.py:283-287: what delete_repo does to the tree and to the log.
\* rmtree refuses a symbolic link with an OSError, which main() does not catch.
delete_repo(f, l, path) ==
    IF ~Exists(f, path) THEN [fs |-> f, log |-> l, raised |-> "none"]
    ELSE IF ~ensure_within_workspace(path)
    THEN [fs |-> f, log |-> l, raised |-> "Path escapes workspace root"]
    ELSE LET checked == Append(l, Call("ensure_within_workspace", path, <<>>, TRUE))
         IN IF path = LINK
            THEN [fs |-> f, log |-> checked, raised |-> "OSError"]
            ELSE [fs |-> rmtree(f, path),
                  log |-> Append(checked, Call("rmtree", path, <<>>, TRUE)),
                  raised |-> "none"]

\* plant_seed.py:322-326
DeleteRepo ==
    /\ pc = "apply"
    /\ idx > Len(plans)
    /\ oidx <= Len(orphans)
    /\ LET res == delete_repo(fs, log, orphans[oidx])
       IN /\ fs' = res.fs
          /\ log' = res.log
          /\ IF res.raised = "none"
             THEN oidx' = oidx + 1 /\ UNCHANGED <<pc, exitCode, error>>
             ELSE Raise(res.raised) /\ oidx' = oidx
    /\ UNCHANGED <<frame, idx>>

\* plant_seed.py:327
Finish ==
    /\ pc = "apply"
    /\ idx > Len(plans)
    /\ oidx > Len(orphans)
    /\ pc' = "done"
    /\ exitCode' = 0
    /\ UNCHANGED <<frame, fs, idx, oidx, error, log>>

Next ==
    \/ LoadSeed
    \/ PlanAll
    \/ ShowPlan
    \/ Confirm
    \/ SkipPlan
    \/ EnsureRepo
    \/ EnsureRemoteOrigin
    \/ GitFetch
    \/ MkdirParents
    \/ CloneRepo
    \/ GitCheckout
    \/ GitResetHard
    \/ GitUpdateSubmodules
    \/ DeleteRepo
    \/ Finish

Spec == Init /\ [][Next]_vars

(* ------------------------------------------------------------------ *)
(* Capture (make_seed.py)                                             *)
(* ------------------------------------------------------------------ *)

\* make_seed.py:15
SKIP_NAMES == {"_raisin_seed", ".git"}

\* The names of RootNames for which entry.name.startswith(".") holds.
DotNames == {".h"}

\* make_seed.py:69-76.  A repository of the model has origin as its only
\* remote, or none: "origin" is selected, or RuntimeError is raised ("none").
select_remote(f, path) ==
    IF f[WorkTreeOf(f, path)].origin = NoOrigin THEN "none" ELSE "origin"

\* make_seed.py:79-84
current_branch(f, path) ==
    LET branch == f[WorkTreeOf(f, path)].branch
    IN IF branch # "" /\ branch # "HEAD" THEN branch ELSE "HEAD"

\* make_seed.py:87-93.  path is SRC_ROOT / name; git -C follows a link.
collect_repo_metadata(f, path) ==
    LET t == WorkTreeOf(f, Resolve(path))
    IN [name |-> path[Len(path)],
        path |-> SubSeq(path, Len(SRC_ROOT) + 1, Len(path)),
        remote |-> f[t].origin,
        branch |-> current_branch(f, Resolve(path)),
        commit |-> f[t].commit]

\* make_seed.py:62-66: git -C path rev-parse --is-inside-work-tree prints
\* "true"; git enters the directory that a link points to.
make_seed_is_git_repository(f, path) ==
    Exists(f, path) /\ WorkTreeOf(f, Resolve(path)) # <<>>

\* make_seed.py:98-105: the entries of SRC_ROOT that get past the three
\* `continue`s, in sorted order.
discovered(f) ==
    SelectSeq(RootNames,
              LAMBDA name :
                  /\ name \notin SKIP_NAMES
                  /\ name \notin DotNames
                  /\ IsDir(f, SRC_ROOT \o <<name>>)
                  /\ make_seed_is_git_repository(f, SRC_ROOT \o <<name>>))

\* make_seed.py:96-106, when select_remote raises for one of the entries.
discover_raises(f) ==
    \E k \in 1..Len(discovered(f)) :
        select_remote(f, Resolve(SRC_ROOT \o <<discovered(f)[k]>>)) = "none"

\* make_seed.py:96-106
discover_repositories(f) ==
    [k \in 1..Len(discovered(f)) |->
        collect_repo_metadata(f, SRC_ROOT \o <<discovered(f)[k]>>)]

\* make_seed.py:109-110
build_seed_payload(entries) == [repositories |-> entries]

\* make_seed.py:113-115: the content of the seed file after the write.
write_seed_file(payload) == payload.repositories

\* make_seed.py:118-129: a later entry replaces an earlier one of the same path.
index_repositories(payload) ==
    LET rs == payload.repositories
        last(p) == CHOOSE i \in 1..Len(rs) :
                      /\ rs[i].path = p
                      /\ \A j \in 1..Len(rs) : rs[j].path = p => j <= i
    IN [p \in { rs[i].path : i \in 1..Len(rs) } |-> rs[last(p)]]

\* make_seed.py:132-142, for a seed file that holds valid JSON; a missing or
\* unreadable file gives the same empty map as an empty list.
load_existing_seed(file) == index_repositories([repositories |-> file])

\* make_seed.py:145-148
format_repo_state(repo) ==
    <<IF repo.branch # "" THEN repo.branch ELSE "HEAD",
      IF repo.commit # "" THEN repo.commit ELSE "unknown">>

\* make_seed.py:151-154
format_field_value(field, value) == IF value = "" THEN "?" ELSE value

\* The paths of the model in the order sorted() puts their strings:
\* "../../x" < "../x" < "a" < "a/n" < "b" < "l".
SortedPaths == << <<"..", "..", "x">>, <<"..", "x">>, <<"a">>, <<"a", "n">>,
                  <<"b">>, <<"l">> >>
sorted(S) == SelectSeq(SortedPaths, LAMBDA p : p \in S)

\* make_seed.py:167-178: the differing fields of one path, in the order
\* remote, branch, commit.
field_diffs(old_entry, new_entry) ==
    (IF old_entry.remote # new_entry.remote
     THEN << <<"remote", format_field_value("remote", old_entry.remote),
               format_field_value("remote", new_entry.remote)>> >> ELSE <<>>)
    \o (IF old_entry.branch # new_entry.branch
        THEN << <<"branch", format_field_value("branch", old_entry.branch),
                  format_field_value("branch", new_entry.branch)>> >> ELSE <<>>)
    \o (IF old_entry.commit # new_entry.commit
        THEN << <<"commit", format_field_value("commit", old_entry.commit),
                  format_field_value("commit", new_entry.commit)>> >> ELSE <<>>)

\* Variant: the second loop walks the same paths as the first.
summarize_seed_changes_same_loop(old_map, new_map) ==
    LET old_paths == DOMAIN old_map
        new_paths == DOMAIN new_map
        added == sorted(new_paths \ old_paths)
        removed == sorted(new_paths \ old_paths)
        common == SelectSeq(sorted(old_paths \cap new_paths),
                            LAMBDA p : field_diffs(old_map[p], new_map[p]) # <<>>)
    IN [k \in 1..Len(added) |->
            [sign |-> "+", path |-> added[k],
             text |-> format_repo_state(new_map[added[k]])]]
       \o [k \in 1..Len(removed) |->
            [sign |-> "-", path |-> removed[k], text |-> <<"removed from seed">>]]
       \o [k \in 1..Len(common) |->
            [sign |-> "~", path |-> common[k],
             text |-> field_diffs(old_map[common[k]], new_map[common[k]])]]

\* make_seed.py:157-183
summarize_seed_changes(old_map, new_map) ==
    LET old_paths == DOMAIN old_map
        new_paths == DOMAIN new_map
        added == sorted(new_paths \ old_paths)
        removed == sorted(old_paths \ new_paths)
        common == SelectSeq(sorted(old_paths \cap new_paths),
                            LAMBDA p : field_diffs(old_map[p], new_map[p]) # <<>>)
    IN [k \in 1..Len(added) |->
            [sign |-> "+", path |-> added[k],
             text |-> format_repo_state(new_map[added[k]])]]
       \o [k \in 1..Len(removed) |->
            [sign |-> "-", path |-> removed[k], text |-> <<"removed from seed">>]]
       \o [k \in 1..Len(common) |->
            [sign |-> "~", path |-> common[k],
             text |-> field_diffs(old_map[common[k]], new_map[common[k]])]]

\* make_seed.py:205-208.  The RuntimeError of select_remote is not caught:
\* the interpreter prints the traceback and exits with status 1.
CapDiscover ==
    /\ pc = "cap_start"
    /\ IF discover_raises(fs)
       THEN /\ pc' = "cap_crashed"
            /\ exitCode' = 1
            /\ repos' = repos
       ELSE /\ repos' = discover_repositories(fs)
            /\ IF repos' = <<>>
               THEN pc' = "cap_done" /\ exitCode' = 1
               ELSE pc' = "cap_found" /\ exitCode' = exitCode
    /\ UNCHANGED <<tool, changes, seed, fs, fs0, specs, plans, orphans, stdin, confirmed,
                   idx, oidx, error, probed, log>>

\* Variant: the operator is asked even when there is nothing to change.
CapDiff_always_asks ==
    /\ pc = "cap_found"
    /\ changes' = summarize_seed_changes(load_existing_seed(seed),
                                         index_repositories(build_seed_payload(repos)))
    /\ pc' = "cap_confirm"
    /\ stdin' \in Responses
    /\ exitCode' = exitCode
    /\ UNCHANGED <<tool, repos, seed, fs, fs0, specs, plans, orphans, confirmed,
                   idx, oidx, error, probed, log>>

\* make_seed.py:209-217
CapDiff ==
    /\ pc = "cap_found"
    /\ changes' = summarize_seed_changes(load_existing_seed(seed),
                                         index_repositories(build_seed_payload(repos)))
    /\ IF changes' = <<>>
       THEN pc' = "cap_done" /\ exitCode' = 0 /\ stdin' = stdin
       ELSE pc' = "cap_confirm" /\ stdin' \in Responses /\ exitCode' = exitCode
    /\ UNCHANGED <<tool, repos, seed, fs, fs0, specs, plans, orphans, confirmed,
                   idx, oidx, error, probed, log>>

\* make_seed.py:192-197
make_seed_confirm_execution(response) ==
    IF response = EOF THEN FALSE
    ELSE Lower(Strip(response)) \in { <<"y">>, <<"y", "e", "s">> }

\* make_seed.py:218-223
CapConfirm ==
    /\ pc = "cap_confirm"
    /\ confirmed' = make_seed_confirm_execution(stdin)
    /\ stdin' = EOF
    /\ IF confirmed'
       THEN /\ seed' = write_seed_file(build_seed_payload(repos))
            /\ log' = Append(log, Call("write_seed_file", SEED, <<>>, TRUE))
       ELSE UNCHANGED <<seed, log>>
    /\ pc' = "cap_done"
    /\ exitCode' = 0
    /\ UNCHANGED <<tool, repos, changes, fs, fs0, specs, plans, orphans,
                   idx, oidx, error, probed>>

\* The capture run wrote the seed file.
Wrote == log # <<>> /\ log[Len(log)].op = "write_seed_file"

\* plant_seed.py is started on the seed file that make_seed.py has just
\* written, the tree being as the capture found it.
StartSync ==
    /\ tool = <<"capture">>
    /\ pc = "cap_done"
    /\ Wrote
    /\ tool' = Append(tool, "sync")
    /\ pc' = "start"
    /\ fs0' = fs
    /\ specs' = <<>>
    /\ plans' = <<>>
    /\ orphans' = <<>>
    /\ stdin' = EOF
    /\ confirmed' = FALSE
    /\ idx' = 0
    /\ oidx' = 0
    /\ exitCode' = -1
    /\ error' = NoError
    /\ probed' = {}
    /\ UNCHANGED <<seed, fs, log, repos, changes>>

\* make_seed.py is started on the tree that a confirmed run of plant_seed.py
\* has left without an error.
StartCapture ==
    /\ tool = <<"sync">>
    /\ pc = "done"
    /\ confirmed
    /\ tool' = Append(tool, "capture")
    /\ pc' = "cap_start"
    /\ exitCode' = -1
    /\ UNCHANGED <<seed, fs, fs0, specs, plans, orphans, stdin, confirmed, idx, oidx,
                   error, probed, log, repos, changes>>

\* Seeds whose entries name immediate subdirectories of SRC_ROOT.
RootEntries == { e \in SeedEntries : e.path \in { <<"a">>, <<"b">>, <<"l">> } }
RootSeeds == UNION { [1..n -> RootEntries] : n \in 0..MaxSpecs }

\* Trees with repositories on a branch or detached, with or without origin,
\* and with a dot-named repository next to them.
ToolRepos ==
    { Repo(b, c, o, FALSE, TRUE) : b \in Branches, c \in Commits,
                                  o \in {NoOrigin} \cup Remotes }
ToolTrees ==
    { Tree(a, b, Absent, dot) :
        a \in {Absent, PlainDir} \cup ToolRepos,
        b \in {Absent, Repo("main", "c1", "r1", FALSE, TRUE)},
        dot \in {Absent, Repo("main", "c1", "r1", FALSE, TRUE)} }

InitTools ==
    /\ seed \in RootSeeds
    /\ fs \in ToolTrees
    /\ fs0 = fs
    /\ tool \in { <<"capture">>, <<"sync">> }
    /\ pc = IF tool = <<"capture">> THEN "cap_start" ELSE "start"
    /\ specs = <<>>
    /\ plans = <<>>
    /\ orphans = <<>>
    /\ stdin = EOF
    /\ confirmed = FALSE
    /\ idx = 0
    /\ oidx = 0
    /\ exitCode = -1
    /\ error = NoError
    /\ probed = {}
    /\ log = <<>>
    /\ repos = <<>>
    /\ changes = <<>>

NextTools ==
    \/ Next
    \/ CapDiscover
    \/ CapDiff
    \/ CapConfirm
    \/ StartSync
    \/ StartCapture

SpecTools == InitTools /\ [][NextTools]_vars

(* ------------------------------------------------------------------ *)
(* Properties                                                         *)
(* ------------------------------------------------------------------ *)

Terminal == {"done", "aborted", "failed"}

\* The run got through the apply loop and the removal loop without an error.
Completed == pc = "done" /\ confirmed

DuplicatePaths ==
    \E i, j \in 1..Len(specs) : i # j /\ specs[i].path = specs[j].path

PathEscapeReported ==
    "Path escapes workspace root" \in {error.kind, error.cause}

\* C1: after a confirmed run in which every primitive succeeded, planning the
\* same manifest again classifies every spec as up-to-date, needing no action.
C1_Idempotent ==
    Completed =>
        \A i \in 1..Len(specs) :
            /\ ~plan_raises(specs[i], fs)
            /\ plan_repo(specs[i], fs).status = "up-to-date"
            /\ ~plan_repo(specs[i], fs).needs_action

\* C2 as stated: an entry that resolves outside the root its path is relative
\* to (SRC_ROOT) stops the run with the path-escape error, before any probe
\* and without any mutation.
C2_EscapesSourceRoot ==
    (pc # "start" /\ \E i \in 1..Len(seed) : ~IsPrefix(SRC_ROOT, RepoSpec(seed[i]).path))
        => /\ pc = "failed"
           /\ PathEscapeReported
           /\ probed = {}
           /\ log = <<>>
           /\ fs = fs0

\* C2 amended: an entry that resolves outside WORKSPACE_ROOT, the parent of the
\* root its path is relative to, stops the run with exit status 1 and the
\* path-escape error reported as an invalid seed entry, before any probe and
\* without any mutation.
C2_EscapesWorkspaceRoot ==
    (pc # "start" /\ \E i \in 1..Len(seed) : ~IsPrefix(WORKSPACE_ROOT, RepoSpec(seed[i]).path))
        => /\ pc = "failed"
           /\ exitCode = 1
           /\ error = [kind |-> "Invalid entry in seed file",
                       cause |-> "Path escapes workspace root"]
           /\ specs = <<>>
           /\ probed = {}
           /\ log = <<>>
           /\ fs = fs0

\* A run refused for an escaping entry although another entry was acceptable
\* and would have been cloned.
C2_Witness ==
    /\ pc = "failed"
    /\ PathEscapeReported
    /\ \E i \in 1..Len(seed) :
          /\ IsPrefix(WORKSPACE_ROOT, RepoSpec(seed[i]).path)
          /\ ~Exists(fs, RepoSpec(seed[i]).path)

\* The lines that count as "yes": y or yes, whatever the case and the
\* surrounding blanks.
AffirmativeLines == { <<"y">>, <<" ", "Y", "E", "S", " ">> }

\* C3: a response other than y/yes, or the end of input, ends the run at the
\* gate: no primitive has run or will run, and the tree is as it was.
C3_GateAllOrNothing ==
    [][ /\ (pc = "confirm" /\ stdin \notin AffirmativeLines)
            => (pc' = "aborted" /\ exitCode' = 0 /\ log' = <<>> /\ fs' = fs0)
        /\ pc # "aborted" ]_vars

\* The operator declined a plan that had both work to do and orphans to remove.
C3_Witness ==
    /\ pc = "aborted"
    /\ NeedsAction(plans)
    /\ orphans # <<>>
    /\ fs = fs0

\* Entries whose path is occupied by something git does not see as a work tree.
Occupied == { i \in 1..Len(specs) : plan_raises(specs[i], fs0) }

\* C4 as stated: an occupied path fails planning for that entry only; every
\* other entry still gets its plan.
C4_OtherEntriesPlanned ==
    (pc \in Terminal /\ Occupied # {})
        => \A j \in (1..Len(specs)) \ Occupied :
              \E k \in 1..Len(plans) : plans[k].spec = specs[j]

\* C4 amended: an occupied path fails the whole planning pass: the run ends
\* with exit status 1 before any plan is shown, nothing is synced or removed,
\* and the tree (the occupied directory included) is left as it was.
C4_OccupiedPathFailsRun ==
    (pc \notin {"start", "loaded"} /\ Occupied # {})
        => /\ pc = "failed"
           /\ exitCode = 1
           /\ error.kind = "Path exists but is not a git repo"
           /\ plans = <<>>
           /\ orphans = <<>>
           /\ log = <<>>
           /\ fs = fs0

\* Planning failed on an occupied path while another entry needed syncing.
C4_Witness ==
    /\ pc = "failed"
    /\ Occupied # {}
    /\ \E j \in (1..Len(specs)) \ Occupied : plan_repo(specs[j], fs0).needs_action

\* C5: two entries that resolve to the same path make the planning pass fail:
\* no plan is produced, no primitive runs, the run ends in failure.
C5_DuplicateRejected ==
    DuplicatePaths =>
        /\ plans = <<>>
        /\ log = <<>>
        /\ (pc \in Terminal => pc = "failed")

FailedCalls == { k \in 1..Len(log) : ~log[k].ok }

\* C6 as stated: after a primitive failed for one spec, every later spec that
\* needs action is still synced and the exit status is not zero.
C6_LaterSpecsSynced ==
    (pc \in Terminal /\ FailedCalls # {})
        => /\ exitCode # 0
           /\ \A k \in FailedCalls :
                \A j \in (log[k].spec + 1)..Len(plans) :
                    plans[j].needs_action => \E m \in 1..Len(log) : log[m].spec = j

\* C6 amended: the primitive that fails is the last call of the run: the rest
\* of that spec's actions, every later spec and the orphan removal are
\* skipped, and the run ends with exit status 1.
C6_FailureEndsRun ==
    \A k \in FailedCalls :
        /\ k = Len(log)
        /\ pc = "failed"
        /\ exitCode = 1
        /\ error = [kind |-> "Command failed", cause |-> log[k].op]
        /\ log[k].spec = idx
        /\ \A m \in 1..Len(log) : log[m].spec <= idx /\ log[m].op # "rmtree"

\* A primitive failed while a later spec needed action and orphans were pending.
C6_Witness ==
    /\ pc = "failed"
    /\ FailedCalls # {}
    /\ idx < Len(plans)
    /\ plans[idx + 1].needs_action
    /\ orphans # <<>>

\* C7: when the apply of a spec stops between two of its actions, after the
\* clone or fetch and anywhere up to the submodule update, a new planning
\* pass finds that the spec needs action.
C7_SelfHealing ==
    pc \in {"checkout", "reset", "submodules"} => plan_repo(Cur, fs).needs_action

Clones == { k \in 1..Len(log) : log[k].op = "clone" }

\* C8: whenever clone is invoked, its destination does not exist.
C8_CloneOnlyOnAbsentPath ==
    \A k \in Clones : ~log[k].existed

\* A run over a manifest with a repeated path finished and did clone.
C8_Witness ==
    /\ Completed
    /\ DuplicatePaths
    /\ \E k \in Clones : \E i, j \in 1..Len(specs) :
          i # j /\ specs[i].path = log[k].path /\ specs[j].path = log[k].path

\* The orphans have been computed, on the tree the run started with.
OrphansShown == pc \in {"confirm", "aborted"}

\* Immediate entries of SRC_ROOT that are directories and repository roots.
RepoRoots ==
    { name \in {RootNames[i] : i \in 1..Len(RootNames)} :
        LET q == Resolve(SRC_ROOT \o <<name>>) IN q \in Nodes /\ fs0[q].kind = "repo" }

\* C9: a repository root directly under SRC_ROOT is reported as an orphan
\* exactly when its resolved path is no entry's resolved path and its name is
\* not ignored; nothing else is reported.
C9_OrphanSet ==
    OrphansShown =>
        { orphans[i] : i \in 1..Len(orphans) }
            = { SRC_ROOT \o <<name>> : name \in
                  { n \in RepoRoots :
                      /\ n \notin {"_raisin_seed"}
                      /\ \A i \in 1..Len(specs) :
                            Resolve(specs[i].path) # Resolve(SRC_ROOT \o <<n>>) } }

\* Orphans are reported while a tracked repository, reachable also through
\* the symbolic link, is not.
C9_Witness ==
    /\ OrphansShown
    /\ orphans # <<>>
    /\ "a" \in RepoRoots
    /\ "l" \in RepoRoots
    /\ \E i \in 1..Len(specs) : specs[i].path = A

Removals == { k \in 1..Len(log) : log[k].op = "rmtree" }

\* C10: a directory is removed only after an affirmative answer, each removal
\* directly follows a containment check of the same path that passed, and a
\* declined run leaves every reported orphan on disk.
C10_RemovalGated ==
    /\ \A k \in Removals :
          /\ confirmed
          /\ k > 1
          /\ log[k - 1].op = "ensure_within_workspace"
          /\ log[k - 1].path = log[k].path
          /\ log[k - 1].ok
          /\ IsPrefix(WORKSPACE_ROOT, log[k].path)
    /\ pc = "aborted" => \A i \in 1..Len(orphans) : Exists(fs, orphans[i])

\* An orphan was removed in a confirmed run.
C10_Witness ==
    /\ Completed
    /\ Removals # {}
    /\ \E i \in 1..Len(orphans) : ~Exists(fs, orphans[i])

\* What the planning pass observed at the path of plan i: whether something
\* was there, and the repository whose work tree holds the path.
PathPresent(i) == Exists(fs0, plans[i].spec.path)
ObservedRepo(i) == fs0[WorkTreeOf(fs0, plans[i].spec.path)]
MatchesSeed(i) ==
    /\ PathPresent(i)
    /\ ObservedRepo(i).branch = plans[i].spec.branch
    /\ ObservedRepo(i).commit = plans[i].spec.commit

\* C11: a plan is "clone new repo" exactly when its path was absent,
\* "up-to-date" exactly when the path was a repository whose branch and commit
\* both equal the desired ones, "update existing repo" exactly when it was a
\* repository and one of the two differs; needs_action is false exactly for
\* the up-to-date plans.
C11_Classification ==
    \A i \in 1..Len(plans) :
        /\ plans[i].status \in {"clone new repo", "up-to-date", "update existing repo"}
        /\ (plans[i].status = "clone new repo") <=> ~PathPresent(i)
        /\ (plans[i].status = "up-to-date") <=> MatchesSeed(i)
        /\ (plans[i].status = "update existing repo")
              <=> (PathPresent(i) /\ ~MatchesSeed(i))
        /\ plans[i].needs_action <=> (plans[i].status # "up-to-date")

\* The planning pass met a repository whose commit is the desired one while
\* its branch is not, next to one that matches in both.
C11_Witness ==
    /\ pc = "planned"
    /\ \E i, j \in 1..Len(plans) :
          /\ plans[i].status = "update existing repo"
          /\ ObservedRepo(i).commit = plans[i].spec.commit
          /\ plans[j].status = "up-to-date"

StepVerbs(steps) == [k \in 1..Len(steps) |-> steps[k].verb]
RemoteVerbs == {"add origin", "set origin URL"}
CheckoutVerb(i) ==
    IF plans[i].spec.branch # "HEAD" THEN "checkout branch" ELSE "checkout detached HEAD"

\* C12: a clone plan lists exactly clone, checkout, hard reset, submodule
\* update; an update plan lists the remote reconciliation (present exactly when
\* origin is missing or its URL differs), then fetch, checkout, hard reset,
\* submodule update; the checkout is a branch checkout when the desired branch
\* is not HEAD and a detached one when it is.
C12_ActionList ==
    \A i \in 1..Len(plans) :
        LET verbs == StepVerbs(plans[i].steps)
            rest == <<CheckoutVerb(i), "reset --hard", "update submodules">>
        IN /\ plans[i].status = "clone new repo" => verbs = <<"clone from">> \o rest
           /\ plans[i].status = "update existing repo" =>
                LET reconcile == \/ ObservedRepo(i).origin = NoOrigin
                                 \/ ObservedRepo(i).origin # plans[i].spec.remote
                IN /\ reconcile =>
                        /\ Len(verbs) = 5
                        /\ verbs[1] \in RemoteVerbs
                        /\ Tail(verbs) = <<"fetch --all --tags --prune">> \o rest
                   /\ ~reconcile => verbs = <<"fetch --all --tags --prune">> \o rest

\* An update plan that reconciles a missing origin and checks out detached,
\* next to a clone plan that checks out a branch.
C12_Witness ==
    /\ pc = "planned"
    /\ \E i, j \in 1..Len(plans) :
          /\ plans[i].status = "update existing repo"
          /\ ObservedRepo(i).origin = NoOrigin
          /\ plans[i].spec.branch = "HEAD"
          /\ plans[j].status = "clone new repo"
          /\ plans[j].spec.branch # "HEAD"

\* C13 as stated: an up-to-date plan has no entry in its list of steps.
C13_UpToDateNoSteps ==
    \A i \in 1..Len(plans) : plans[i].status = "up-to-date" => plans[i].steps = <<>>

\* C13: an up-to-date plan needs no action and no call is made for it, but its
\* list of steps is not empty: it holds exactly one entry, the description
\* "already on <branch> @ <commit>" of the state that was found.
C13_UpToDateOneDescription ==
    \A i \in 1..Len(plans) :
        plans[i].status = "up-to-date" =>
            /\ ~plans[i].needs_action
            /\ plans[i].steps =
                 <<Step("already on", <<plans[i].spec.branch, plans[i].spec.commit>>)>>
            /\ \A k \in 1..Len(log) : log[k].spec # i

\* A confirmed run went past an up-to-date plan and worked on another one.
C13_Witness ==
    /\ pc = "done"
    /\ confirmed
    /\ log # <<>>
    /\ \E i \in 1..Len(plans) : plans[i].status = "up-to-date"

\* The calls made by the apply loop, as positions of the log.
ApplyCalls == { k \in 1..Len(log) : log[k].spec \in 1..Len(plans) }

\* C16: calls are made only after the confirmation; plan i is the plan of the
\* i-th manifest entry and the calls of the apply loop follow that order, all
\* calls of one entry before any call of a later one; a failed call is the
\* last call of the run; no call is made for a plan whose needs_action is
\* false.
C16_ApplyOrder ==
    /\ log # <<>> => confirmed
    /\ \A i \in 1..Len(plans) : plans[i].spec = RepoSpec(seed[i])
    /\ \A k, m \in 1..Len(log) : k < m => (log[k].spec <= log[m].spec /\ log[k].ok)
    /\ \A k \in ApplyCalls :
          /\ plans[log[k].spec].needs_action
          /\ log[k].path \in { plans[log[k].spec].spec.path,
                               Parent(plans[log[k].spec].spec.path) }

\* A confirmed run that skipped its first entry and worked on its second.
C16_Witness ==
    /\ pc = "done"
    /\ confirmed
    /\ Len(plans) = 2
    /\ ~plans[1].needs_action
    /\ \E k \in 1..Len(log) : log[k].spec = 2

\* C17: no directory removed as an orphan is, or contains, the resolved path
\* of a manifest entry, so after a confirmed run in which every call succeeded
\* every entry's path is a repository at the desired branch and commit.
C17_ManagedSurvive ==
    /\ \A k \in Removals : \A i \in 1..Len(specs) :
          ~IsPrefix(log[k].path, specs[i].path)
    /\ Completed =>
          \A i \in 1..Len(specs) :
              /\ is_git_repository(fs, specs[i].path)
              /\ get_repo_state(fs, specs[i].path) = <<specs[i].branch, specs[i].commit>>

\* The git command that a line of a displayed plan announces.
AnnouncedCall(verb) ==
    CASE verb \in RemoteVerbs -> "remote"
      [] verb = "fetch --all --tags --prune" -> "fetch"
      [] verb = "clone from" -> "clone"
      [] OTHER -> verb

Announced(i) ==
    [k \in 1..Len(plans[i].steps) |-> AnnouncedCall(plans[i].steps[k].verb)]

\* The git commands run for plan i, in order.
RECURSIVE ExecutedFrom(_, _)
ExecutedFrom(i, k) ==
    IF k > Len(log) THEN <<>>
    ELSE IF log[k].spec = i /\ log[k].op # "mkdir"
         THEN <<log[k].op>> \o ExecutedFrom(i, k + 1)
         ELSE ExecutedFrom(i, k + 1)
Executed(i) == ExecutedFrom(i, 1)

\* C18: once the apply loop is through with a plan that needed action, the
\* git commands run for it are the ones its displayed plan announced, in the
\* same order.
C18_PlanApplyAgree ==
    \A i \in 1..Len(plans) :
        (pc \in {"apply", "done"} /\ confirmed /\ i < idx /\ plans[i].needs_action)
            => Executed(i) = Announced(i)

\* The manifest as a map: the paths it names and, for a path, the entry that
\* counts (the last one of that path).
KeysOf(list) == { list[i].path : i \in 1..Len(list) }
EntryOf(list, p) ==
    list[CHOOSE i \in 1..Len(list) :
            list[i].path = p /\ \A j \in (i + 1)..Len(list) : list[j].path # p]

\* The candidate snapshot names the paths of the manifest on disk and pins
\* each to the same remote, branch and commit.
SameSnapshot(file, found) ==
    /\ KeysOf(file) = KeysOf(found)
    /\ \A p \in KeysOf(file) :
          /\ EntryOf(file, p).remote = EntryOf(found, p).remote
          /\ EntryOf(file, p).branch = EntryOf(found, p).branch
          /\ EntryOf(file, p).commit = EntryOf(found, p).commit

Capturing == tool[Len(tool)] = "capture"

\* C14: a capture run changes the seed file only in the step that follows an
\* affirmative answer to a prompt shown for a non-empty diff, and then the file
\* holds the candidate snapshot; an answer that is not affirmative leaves the
\* file as it was; when the candidate matches the manifest on disk the run
\* ends without asking and without writing.
C14_WriteGuard ==
    [][ Capturing =>
          /\ (seed' # seed \/ log' # log) =>
                /\ pc = "cap_confirm"
                /\ stdin \in AffirmativeLines
                /\ ~SameSnapshot(seed, repos)
                /\ seed' = repos
                /\ log' = Append(log, log'[Len(log')])
                /\ log'[Len(log')].op = "write_seed_file"
          /\ (pc = "cap_confirm" /\ stdin \notin AffirmativeLines) =>
                (seed' = seed /\ log' = log /\ pc' = "cap_done")
          /\ (pc = "cap_confirm" /\ stdin \in AffirmativeLines) => seed' = repos
          /\ (pc = "cap_found" /\ SameSnapshot(seed, repos)) =>
                (seed' = seed /\ log' = log /\ pc' = "cap_done" /\ exitCode' = 0)
      ]_vars

\* The capture wrote a snapshot of two repositories over a manifest that
\* differed from it.
C14_Witness ==
    /\ tool = <<"capture">>
    /\ pc = "cap_done"
    /\ Wrote
    /\ Len(repos) = 2
    /\ seed = repos

\* The inputs of the diff that the capture run computed, while the seed file
\* is still the one the diff was computed against.
DiffTaken ==
    /\ Capturing
    /\ \/ pc = "cap_confirm"
       \/ pc = "cap_done" /\ exitCode = 0 /\ ~Wrote /\ changes = <<>>
OldMap == load_existing_seed(seed)
NewMap == index_repositories(build_seed_payload(repos))

PathsOf(lines, sign) ==
    LET sel == SelectSeq(lines, LAMBDA l : l.sign = sign)
    IN [k \in 1..Len(sel) |-> sel[k].path]
Rank(p) == CHOOSE k \in 1..Len(SortedPaths) : SortedPaths[k] = p
Ascending(ps) == \A k, m \in 1..Len(ps) : k < m => Rank(ps[k]) < Rank(ps[m])
Range(ps) == { ps[k] : k \in 1..Len(ps) }

\* C15: the added paths of diff(A, B) are the removed paths of diff(B, A) and
\* the removed paths of diff(A, B) are the added paths of diff(B, A); added
\* are the keys of B missing in A, removed the keys of A missing in B; the
\* added, removed and changed lists are each in ascending order of the key.
C15_DiffSymmetry ==
    DiffTaken =>
        LET back == summarize_seed_changes(NewMap, OldMap)
        IN /\ PathsOf(changes, "+") = PathsOf(back, "-")
           /\ PathsOf(changes, "-") = PathsOf(back, "+")
           /\ Range(PathsOf(changes, "+")) = KeysOf(repos) \ KeysOf(seed)
           /\ Range(PathsOf(changes, "-")) = KeysOf(seed) \ KeysOf(repos)
           /\ Range(PathsOf(changes, "~")) = Range(PathsOf(back, "~"))
           /\ \A sign \in {"+", "-", "~"} : Ascending(PathsOf(changes, sign))

\* A diff with two added paths and one removed path.
C15_Witness ==
    /\ pc = "cap_confirm"
    /\ Len(PathsOf(changes, "+")) = 2
    /\ Len(PathsOf(changes, "-")) = 1

\* C19: when plant_seed.py runs on the manifest that make_seed.py has just
\* written for the same tree, it ends without asking: every plan is
\* up-to-date and no orphan is reported.
C19_CaptureThenSync ==
    (tool = <<"capture", "sync">> /\ pc \notin {"start", "loaded", "planned"}) =>
        /\ pc = "done"
        /\ ~confirmed
        /\ \A i \in 1..Len(plans) : plans[i].status = "up-to-date"
        /\ orphans = <<>>

\* C20: when make_seed.py runs on the tree left by a confirmed run of
\* plant_seed.py without an error, for a manifest of immediate subdirectories
\* of the root, its diff against that manifest is empty.
C20_SyncThenCapture ==
    ( /\ tool = <<"sync", "capture">>
      /\ \A i \in 1..Len(seed) : Len(seed[i].path) = 1 /\ seed[i].path[1] # ".."
      /\ pc \notin {"cap_start", "cap_found"} ) =>
        /\ pc = "cap_done"
        /\ exitCode = 0
        /\ changes = <<>>
        /\ SameSnapshot(seed, repos)

====
